---------------------------- MODULE Spec2Model ----------------------------
(***************************************************************************)
(* A model of lib/taurus/qt/qtgui/input/tauruslineedit.py: the quantity    *)
(* validator _PintValidator and the two line-edit widgets                  *)
(* TaurusValueLineEdit and TaurusConfigLineEdit.                           *)
(*                                                                         *)
(* Strings are sequences of one-character strings.  Numbers are fixed      *)
(* point: an integer n stands for n/10, so that the 0.1 step of            *)
(* wheelEvent/keyPressEvent is representable.                              *)
(***************************************************************************)
EXTENDS Integers, Sequences, FiniteSets, TLC

VARIABLES
    pintValidator,  \* a stand-alone _PintValidator: its _bottom and _top
    PYQT_QSTRING_API_1, \* the Qt string API the build selected (line 105)
    lineEdit,       \* the TaurusValueLineEdit object's fields
    attr,           \* the model object (attribute) of the TaurusValueLineEdit
    configEdit,     \* the TaurusConfigLineEdit object's fields
    param,          \* the configuration parameter of the TaurusConfigLineEdit's model
    trace           \* what the last handler did: calls out, signals, return value

vars == <<pintValidator, PYQT_QSTRING_API_1, lineEdit, attr, configEdit, param, trace>>

(***************************************************************************)
(* Bounds                                                                  *)
(***************************************************************************)
\* largest magnitude (in tenths) of the validator's limits and inputs
MaxMag == 2
\* largest cursor position handed to validate
MaxPos == 1
\* the texts typed and the values set are the integers of -MaxText..MaxText
MaxText == 3
\* the model's alarm pair is (-AlarmLimit, AlarmLimit) once configured
AlarmLimit == 1
\* the model's range pair is (-RangeLimit, RangeLimit) once configured
RangeLimit == 2
\* a wheel event turns the wheel by -MaxHalfNotches..MaxHalfNotches half notches
MaxHalfNotches == 2
\* the stepped value stays within -MaxStepValue..MaxStepValue tenths (SpecStep)
MaxStepValue == 52
\* the stepped value stays within -MaxKeysValue..MaxKeysValue tenths (SpecKeys)
MaxKeysValue == 25

(***************************************************************************)
(* Numbers: finite fixed-point values and the two float infinities         *)
(***************************************************************************)
Scale == 10

Finite(n) == [inf |-> 0, n |-> n]
PosInf == [inf |-> 1, n |-> 0]
NegInf == [inf |-> -1, n |-> 0]

\* a < b on floats that may be infinite
Lt(a, b) == \/ a.inf < b.inf
            \/ a.inf = 0 /\ b.inf = 0 /\ a.n < b.n
Le(a, b) == Lt(a, b) \/ a = b

(***************************************************************************)
(* Strings                                                                 *)
(***************************************************************************)
Digits == <<"0", "1", "2", "3", "4", "5", "6", "7", "8", "9">>
IsDigit(c) == \E i \in 1..10 : Digits[i] = c
DigitVal(c) == (CHOOSE i \in 1..10 : Digits[i] = c) - 1

RECURSIVE NatStr(_)
\* str(n) for a natural number n
NatStr(n) == IF n < 10 THEN <<Digits[n + 1]>>
             ELSE NatStr(n \div 10) \o <<Digits[(n % 10) + 1]>>

RECURSIVE StrNat(_)
\* the number a non-empty string of digits denotes
StrNat(s) == IF Len(s) = 1 THEN DigitVal(s[1])
             ELSE 10 * StrNat(SubSeq(s, 1, Len(s) - 1)) + DigitVal(s[Len(s)])

AllDigits(s) == s # <<>> /\ \A i \in 1..Len(s) : IsDigit(s[i])

Abs(n) == IF n < 0 THEN -n ELSE n
SignStr(n) == IF n < 0 THEN <<"-">> ELSE <<>>

\* str(i) of a Python int i (given in tenths, a multiple of Scale)
IntStr(n) == SignStr(n) \o NatStr(Abs(n) \div Scale)
\* str(f) of a Python float f with one decimal (given in tenths)
FloatStr(n) == SignStr(n) \o NatStr(Abs(n) \div Scale) \o <<".">>
               \o NatStr(Abs(n) % Scale)

RECURSIVE LStrip(_)
LStrip(s) == IF s # <<>> /\ Head(s) = " " THEN LStrip(Tail(s)) ELSE s
RECURSIVE RStrip(_)
RStrip(s) == IF s # <<>> /\ s[Len(s)] = " " THEN RStrip(SubSeq(s, 1, Len(s) - 1))
             ELSE s
\* str.strip()
Strip(s) == RStrip(LStrip(s))

\* the result of a conversion that raised
Raised == [ok |-> FALSE, n |-> 0, isInt |-> FALSE]

\* int(s): an optional sign and digits
ParseInt(s) ==
    LET body == IF s # <<>> /\ Head(s) = "-" THEN Tail(s) ELSE s
        neg == s # <<>> /\ Head(s) = "-"
    IN IF AllDigits(body)
       THEN [ok |-> TRUE, isInt |-> TRUE,
             n |-> (IF neg THEN -1 ELSE 1) * Scale * StrNat(body)]
       ELSE Raised

\* float(s): an int, or an optional sign, digits, a point and one digit
ParseFloat(s) ==
    LET body == IF s # <<>> /\ Head(s) = "-" THEN Tail(s) ELSE s
        neg == s # <<>> /\ Head(s) = "-"
        k == Len(body)
    IN IF ParseInt(s).ok THEN [ParseInt(s) EXCEPT !.isInt = FALSE]
       ELSE IF /\ k >= 3
               /\ body[k - 1] = "."
               /\ IsDigit(body[k])
               /\ AllDigits(SubSeq(body, 1, k - 2))
       THEN [ok |-> TRUE, isInt |-> FALSE,
             n |-> (IF neg THEN -1 ELSE 1)
                   * (Scale * StrNat(SubSeq(body, 1, k - 2)) + DigitVal(body[k]))]
       ELSE Raised

(***************************************************************************)
(* Quantities (pint): a magnitude and a dimension                          *)
(***************************************************************************)
None == [kind |-> "None"]
NotAQuantity == [kind |-> "error"]
Quantity(mag, dim) == [kind |-> "Quantity", mag |-> mag, dim |-> dim]

\* the unit names the registry knows, each its own dimension
Units == {<<"m">>, <<"s">>}

IsNumChar(c) == IsDigit(c) \/ c = "-" \/ c = "."
RECURSIVE NumPrefixLen(_)
NumPrefixLen(s) == IF s # <<>> /\ IsNumChar(Head(s)) THEN 1 + NumPrefixLen(Tail(s))
                   ELSE 0

\* Quantity(input) of a string: a number, a number and a unit, or a unit;
\* NotAQuantity when pint raises
QuantityFromString(input) ==
    LET k == NumPrefixLen(input)
        num == SubSeq(input, 1, k)
        unit == Strip(SubSeq(input, k + 1, Len(input)))
        f == ParseFloat(num)
    IN IF num = <<>>
       THEN IF unit \in Units THEN Quantity(Finite(Scale), unit[1]) ELSE NotAQuantity
       ELSE IF ~f.ok THEN NotAQuantity
       ELSE IF unit = <<>> THEN Quantity(Finite(f.n), "")
       ELSE IF unit \in Units THEN Quantity(Finite(f.n), unit[1])
       ELSE NotAQuantity

\* q1 < q2 raises DimensionalityError
DimensionalityError(q1, q2) == q1.dim # q2.dim

(***************************************************************************)
(* _PintValidator                                                          *)
(***************************************************************************)
Intermediate == "Intermediate"
Invalid == "Invalid"
Acceptable == "Acceptable"

\* a new validator: the class attributes _top = None, _bottom = None
NewPintValidator == [_top |-> None, _bottom |-> None]

\* setTop(top): self._top = Quantity(top)
setTop(self, top) == [self EXCEPT !._top = top]

\* setBottom(bottom): self._bottom = Quantity(bottom)
setBottom(self, bottom) == [self EXCEPT !._bottom = bottom]

\* a validator that takes the limits as exclusive
Mutant_validate(self, input, pos) ==
    LET q == QuantityFromString(input)
    IN IF q = NotAQuantity THEN <<Intermediate, input, pos>>
       ELSE IF /\ self._bottom # None
               /\ (DimensionalityError(q, self._bottom) \/ Le(q.mag, self._bottom.mag))
       THEN <<Invalid, input, pos>>
       ELSE IF /\ self._top # None
               /\ (DimensionalityError(q, self._top) \/ Le(self._top.mag, q.mag))
       THEN <<Invalid, input, pos>>
       ELSE <<Acceptable, input, pos>>

\* _validate(input, pos): the tuple (state, input, pos)
_validate(self, input, pos) ==
    LET q == QuantityFromString(input)
    IN IF q = NotAQuantity THEN <<Intermediate, input, pos>>
       ELSE IF /\ self._bottom # None
               /\ (DimensionalityError(q, self._bottom) \/ Lt(q.mag, self._bottom.mag))
       THEN <<Invalid, input, pos>>
       ELSE IF /\ self._top # None
               /\ (DimensionalityError(q, self._top) \/ Lt(self._top.mag, q.mag))
       THEN <<Invalid, input, pos>>
       ELSE <<Acceptable, input, pos>>

\* _validate_oldQt(input, pos): the tuple (state, pos)
_validate_oldQt(self, input, pos) ==
    LET r == _validate(self, input, pos)
    IN <<r[1], r[3]>>

\* validate = PYQT_QSTRING_API_1 and _validate_oldQt or _validate
validate(api1, self, input, pos) ==
    IF api1 THEN _validate_oldQt(self, input, pos) ELSE _validate(self, input, pos)


(***************************************************************************)
(* Values: what model.encode returns and what getValue passes on           *)
(***************************************************************************)
NoneValue == [kind |-> "None"]
IntValue(n) == [kind |-> "int", n |-> n]
FloatValue(n) == [kind |-> "float", n |-> n]
StrValue(s) == [kind |-> "str", s |-> s]

IsNumber(v) == v.kind \in {"int", "float"}

\* str(v)
Str(v) == CASE v.kind = "None" -> <<"N", "o", "n", "e">>
            [] v.kind = "int" -> IntStr(v.n)
            [] v.kind = "float" -> FloatStr(v.n)
            [] OTHER -> v.s

\* float(v): raises for None and for a string that is no number
Float(v) == CASE v.kind = "None" -> Raised
              [] v.kind \in {"int", "float"} -> [ok |-> TRUE, isInt |-> FALSE, n |-> v.n]
              [] OTHER -> ParseFloat(Strip(v.s))

(***************************************************************************)
(* The model object: an attribute with a data type, its alarm and range    *)
(* pairs and the value last written to it                                  *)
(***************************************************************************)
Integer == "Integer"
FloatType == "Float"
String == "String"

Attribute(type, alarm, range, wvalue) ==
    [type |-> type, alarm |-> alarm, range |-> range, wvalue |-> wvalue]

isNumeric(model) == model.type \in {Integer, FloatType}
isFloat(model) == model.type = FloatType

\* model.encode(text): the text as a value of the attribute's type; raises
\* (NoneValue stands for the exception) when the text is no such value
encode(model, text) ==
    CASE model.type = Integer ->
            IF ParseInt(text).ok THEN IntValue(ParseInt(text).n) ELSE NoneValue
      [] model.type = FloatType ->
            IF ParseFloat(text).ok THEN FloatValue(ParseFloat(text).n) ELSE NoneValue
      [] OTHER -> StrValue(text)

\* model.displayValue(v): the value formatted for display
displayValue(model, v) ==
    CASE v.kind = "None" -> NoneValue
      [] isNumeric(model) /\ IsNumber(v) ->
            IF model.type = Integer
            THEN StrValue(IntStr((IF v.n < 0 THEN -1 ELSE 1) * Scale * (Abs(v.n) \div Scale)))
            ELSE StrValue(FloatStr(v.n))
      [] OTHER -> StrValue(Str(v))

(***************************************************************************)
(* TaurusValueLineEdit.  A handler takes and returns the record s:         *)
(*   s.w      the widget's fields                                          *)
(*   s.attr   the model object (None when no model is set)                 *)
(*   s.calls  the calls out of the widget the handler made, in order       *)
(***************************************************************************)
StyleSheet(class, color, weight) ==
    <<class, " {color: ", color, "; font-weight: ", weight, "}">>

\* __init__ (lines 113-129); readOnly and _autoApply are the inherited defaults
NewValueLineEdit ==
    [text |-> <<>>,
     readOnly |-> FALSE,
     _enableWheelEvent |-> FALSE,
     minAlarm |-> NegInf, maxAlarm |-> PosInf,
     minLimit |-> NegInf, maxLimit |-> PosInf,
     validator |-> None,
     _autoApply |-> FALSE,
     _operations |-> <<>>,
     styleSheet |-> <<>>]

Called(s, name) == [s EXCEPT !.calls = Append(@, name)]

\* getModelObj()
getModelObj(s) == s.attr

\* getValue(): model.encode(text), None when that raises
getValue(s) ==
    IF getModelObj(s) = None THEN NoneValue ELSE encode(getModelObj(s), s.w.text)

hasPendingOperations(s) == s.w._operations # <<>>

\* _updateValidator(value)
_updateValidator(s, value) ==
    IF value.type \in {Integer, FloatType}
    THEN [s EXCEPT !.w.validator =
             setTop(setBottom(NewPintValidator, Quantity(s.w.minLimit, "")),
                    Quantity(s.w.maxLimit, ""))]
    ELSE [s EXCEPT !.w.validator = None]

\* _inAlarm(v)
_inAlarm(s, v) ==
    IF Float(v).ok
    THEN ~(Lt(s.w.minAlarm, Finite(Float(v).n)) /\ Lt(Finite(Float(v).n), s.w.maxAlarm))
    ELSE FALSE

\* _outOfRange(v)
_outOfRange(s, v) ==
    IF s.w.validator # None
    THEN validate(PYQT_QSTRING_API_1, s.w.validator, Str(v), 0)[1] # Acceptable
    ELSE IF Float(v).ok
         THEN ~(Le(s.w.minLimit, Finite(Float(v).n)) /\ Le(Finite(Float(v).n), s.w.maxLimit))
         ELSE FALSE

\* an updateStyle that tests the alarm before the range
Mutant_updateStyle(s0) ==
    LET s == Called(s0, "updateStyle")
        v == getValue(s)
        pending == hasPendingOperations(s)
        cw == IF _inAlarm(s, v)
              THEN <<"orange", IF pending THEN "bold" ELSE "normal">>
              ELSE IF _outOfRange(s, v) THEN <<"gray", "normal">>
              ELSE IF pending THEN <<"blue", "bold">>
              ELSE <<"black", "normal">>
    IN [s EXCEPT !.w.styleSheet = StyleSheet("TaurusValueLineEdit", cw[1], cw[2])]

\* updateStyle()
updateStyle(s0) ==
    LET s == Called(s0, "updateStyle")
        v == getValue(s)
        cw == IF _outOfRange(s, v) THEN <<"gray", "normal">>
              ELSE IF _inAlarm(s, v)
                   THEN <<"orange", IF hasPendingOperations(s) THEN "bold" ELSE "normal">>
              ELSE IF hasPendingOperations(s) THEN <<"blue", "bold">>
              ELSE <<"black", "normal">>
    IN [s EXCEPT !.w.styleSheet = StyleSheet("TaurusValueLineEdit", cw[1], cw[2])]

\* TaurusBaseWritableWidget.updatePendingOperations(): one write operation
\* when the widget's value differs from the model's write value, none
\* otherwise (and none when the model is missing); then updateStyle()
updatePendingOperations(s0) ==
    LET s == Called(s0, "updatePendingOperations")
        ops == IF getModelObj(s) = None THEN <<>>
               ELSE IF Str(s.attr.wvalue) = Str(getValue(s)) THEN <<>>
               ELSE <<getValue(s)>>
    IN updateStyle([s EXCEPT !.w._operations = ops])

\* emitValueChanged(): the signal 'valueChanged', connected (line 128) to
\* updatePendingOperations
emitValueChanged(s) == updatePendingOperations(Called(s, "emitValueChanged"))

\* TaurusBaseWritableWidget.writeValue(): applies the pending operations, the
\* model then holding the written value
writeValue(s0) ==
    LET s == Called(s0, "writeValue")
    IN IF hasPendingOperations(s) /\ s.attr # None
       THEN [s EXCEPT !.attr.wvalue = s.w._operations[1], !.w._operations = <<>>]
       ELSE s

\* TaurusBaseWritableWidget.valueChanged, which valueChanged overrides:
\* it applies at once when autoApply is set
Mutant_valueChanged(s) ==
    LET s1 == emitValueChanged(Called(s, "valueChanged"))
    IN IF s1.w._autoApply THEN writeValue(s1) ELSE s1

\* valueChanged(*args)
valueChanged(s) == emitValueChanged(Called(s, "valueChanged"))

\* _onEditingFinished()
_onEditingFinished(s) ==
    IF s.w._autoApply THEN writeValue(s) ELSE s

\* QLineEdit.setText(t): the signal textChanged, connected (line 126) to
\* valueChanged, is emitted when the text changes
setText(s, t) ==
    IF t = s.w.text THEN s ELSE valueChanged([s EXCEPT !.w.text = t])

\* setValue(v)
setValue(s, v) ==
    LET model == getModelObj(s)
        v_str == IF model = None THEN Str(v) ELSE Str(displayValue(model, v))
    IN setText(s, Strip(v_str))


(***************************************************************************)
(* TaurusValueLineEdit: events                                             *)
(***************************************************************************)
Change == "Change"
Config == "Config"
Periodic == "Periodic"
Error == "Error"
TaurusEventTypes == {Change, Config, Periodic, Error}

\* TaurusBaseWritableWidget.handleEvent: a Change or Periodic event emits
\* valueChanged
Base_handleEvent(s0, evt_type) ==
    LET s == Called(s0, "TaurusBaseWritableWidget.handleEvent")
    IN IF evt_type \in {Change, Periodic} THEN emitValueChanged(s) ELSE s

\* a handleEvent that refreshes the limits on every event
Mutant_handleEvent(s, evt_type, evt_value) ==
    IF getModelObj(s) = None
    THEN Called(s, "raise AttributeError")
    ELSE Base_handleEvent(
             _updateValidator(
                 [s EXCEPT !.w.minAlarm = s.attr.alarm[1], !.w.maxAlarm = s.attr.alarm[2],
                           !.w.minLimit = s.attr.range[1], !.w.maxLimit = s.attr.range[2]],
                 evt_value),
             evt_type)

\* handleEvent(evt_src, evt_type, evt_value)
handleEvent(s, evt_type, evt_value) ==
    IF evt_type = Config
    THEN IF getModelObj(s) = None
         THEN Called(s, "raise AttributeError")
         ELSE Base_handleEvent(
                  _updateValidator(
                      [s EXCEPT !.w.minAlarm = s.attr.alarm[1], !.w.maxAlarm = s.attr.alarm[2],
                                !.w.minLimit = s.attr.range[1], !.w.maxLimit = s.attr.range[2]],
                      evt_value),
                  evt_type)
    ELSE Base_handleEvent(s, evt_type)

ControlModifier == "Control"
AltModifier == "Alt"
Key_Up == "Key_Up"
Key_Down == "Key_Down"
Key_Return == "Key_Return"
Key_Enter == "Key_Enter"
Key_Left == "Key_Left"

\* getValue() + v, as kept by the arithmetic: int + int is an int
Plus(value, v) ==
    IF value.kind = "int" THEN IntValue(value.n + v) ELSE FloatValue(value.n + v)

\* _stepBy(v): getValue() + v raises TypeError when getValue() is None
_stepBy(s0, v) ==
    LET s == Called(s0, "_stepBy")
    IN IF IsNumber(getValue(s)) THEN setValue(s, Plus(getValue(s), v))
       ELSE Called(s, "raise TypeError")

getEnableWheelEvent(s) == s.w._enableWheelEvent
setEnableWheelEvent(s, b) == [s EXCEPT !.w._enableWheelEvent = b]

resetEnableWheelEvent(s) == setEnableWheelEvent(s, FALSE)

\* numSteps after the modifiers: times 10 under Control, else times .1 under
\* Alt for a float model (the result in tenths)
Modified(numSteps, modifiers, model) ==
    IF ControlModifier \in modifiers THEN numSteps * 10 * Scale
    ELSE IF AltModifier \in modifiers /\ isFloat(model) THEN (numSteps * Scale) \div 10
    ELSE numSteps * Scale

\* a wheelEvent that does not look at enableWheelEvent
Mutant_wheelEvent(s, evt) ==
    IF s.w.readOnly
    THEN Called(s, "QLineEdit.wheelEvent")
    ELSE IF getModelObj(s) = None \/ ~isNumeric(getModelObj(s))
    THEN Called(s, "QLineEdit.wheelEvent")
    ELSE LET numDegrees == evt.delta \div 8
             numSteps == numDegrees \div 15
         IN _stepBy(Called(s, "accept"), Modified(numSteps, evt.modifiers, getModelObj(s)))

\* wheelEvent(evt); delta is an int, so / is the integer division
wheelEvent(s, evt) ==
    IF ~getEnableWheelEvent(s) \/ s.w.readOnly
    THEN Called(s, "QLineEdit.wheelEvent")
    ELSE IF getModelObj(s) = None \/ ~isNumeric(getModelObj(s))
    THEN Called(s, "QLineEdit.wheelEvent")
    ELSE LET numDegrees == evt.delta \div 8
             numSteps == numDegrees \div 15
         IN _stepBy(Called(s, "accept"), Modified(numSteps, evt.modifiers, getModelObj(s)))

\* QLineEdit.hasAcceptableInput()
hasAcceptableInput(s) ==
    IF s.w.validator = None THEN TRUE
    ELSE validate(PYQT_QSTRING_API_1, s.w.validator, s.w.text, 0)[1] = Acceptable

\* QLineEdit.keyPressEvent: Return and Enter emit returnPressed, connected
\* (line 127) to writeValue, and editingFinished, connected (line 129) to
\* _onEditingFinished, when the input is acceptable
Base_keyPressEvent(s0, evt) ==
    LET s == Called(s0, "QLineEdit.keyPressEvent")
    IN IF evt.key \in {Key_Return, Key_Enter} /\ hasAcceptableInput(s)
       THEN _onEditingFinished(writeValue(s))
       ELSE s

\* a keyPressEvent that lets Alt act on every model
Mutant_keyPressEvent(s, evt) ==
    IF evt.key \in {Key_Return, Key_Enter}
    THEN Called(Base_keyPressEvent(s, evt), "accept")
    ELSE IF s.w.readOnly
    THEN Base_keyPressEvent(s, evt)
    ELSE IF getModelObj(s) = None \/ ~isNumeric(getModelObj(s))
    THEN Base_keyPressEvent(s, evt)
    ELSE IF evt.key \notin {Key_Up, Key_Down}
    THEN Base_keyPressEvent(s, evt)
    ELSE LET numSteps == IF evt.key = Key_Up THEN 1 ELSE -1
         IN _stepBy(Called(s, "accept"),
                    IF ControlModifier \in evt.modifiers THEN numSteps * 10 * Scale
                    ELSE IF AltModifier \in evt.modifiers THEN (numSteps * Scale) \div 10
                    ELSE numSteps * Scale)

\* keyPressEvent(evt)
keyPressEvent(s, evt) ==
    IF evt.key \in {Key_Return, Key_Enter}
    THEN Called(Base_keyPressEvent(s, evt), "accept")
    ELSE IF s.w.readOnly
    THEN Base_keyPressEvent(s, evt)
    ELSE IF getModelObj(s) = None \/ ~isNumeric(getModelObj(s))
    THEN Base_keyPressEvent(s, evt)
    ELSE IF evt.key \notin {Key_Up, Key_Down}
    THEN Base_keyPressEvent(s, evt)
    ELSE LET numSteps == IF evt.key = Key_Up THEN 1 ELSE -1
         IN _stepBy(Called(s, "accept"), Modified(numSteps, evt.modifiers, getModelObj(s)))

(***************************************************************************)
(* The objects as constructed, and the handlers' trace                     *)
(***************************************************************************)
NoTrace == [op |-> "init", calls |-> <<>>]

\* TaurusConfigLineEdit.__init__ (lines 305-312)
NewConfigLineEdit ==
    [text |-> <<>>, _autoApply |-> FALSE, styleSheet |-> <<>>,
     hasModel |-> FALSE, _configParam |-> <<>>]

\* str.rfind(ch) + 1, counted from 1: 0 when ch is not in the string
RFind(str, ch) ==
    IF \E i \in 1..Len(str) : str[i] = ch
    THEN CHOOSE i \in 1..Len(str) : str[i] = ch /\ \A j \in (i + 1)..Len(str) : str[j] # ch
    ELSE 0

\* str.lower(), on the letters the model names use
Lower(str) ==
    [i \in 1..Len(str) |-> CASE str[i] = "L" -> "l"
                             [] str[i] = "U" -> "u"
                             [] OTHER -> str[i]]

\* setModel(model): the parameter name is what follows the last '=' of the
\* model name, in lower case
Config_setModel(w, model) ==
    [w EXCEPT !.hasModel = TRUE,
              !._configParam = Lower(SubSeq(model, RFind(model, "=") + 1, Len(model)))]

\* the name of the model the widget is given
ConfigModelName == <<"a", "?", "c", "=", "L", "a", "b", "e", "l">>

(***************************************************************************)
(* Specification SpecValidator: a _PintValidator whose limits are set and  *)
(* whose validate is called with strings and cursor positions              *)
(***************************************************************************)
\* the limits handed to setTop and setBottom
LimitQuantities ==
    {Quantity(Finite(n), "") : n \in -MaxMag..MaxMag}
    \cup {Quantity(Finite(n), "m") : n \in {0, MaxMag}}
    \cup {Quantity(NegInf, ""), Quantity(PosInf, "")}

\* the strings handed to validate: numbers around the limits, bare or with
\* a unit, and strings that are no quantity
UnitSuffixes == {<<>>, <<" ", "m">>}
ValidatorInputs ==
    {FloatStr(n) \o u : n \in -(MaxMag + 1)..(MaxMag + 1), u \in UnitSuffixes}
    \cup {<<"m">>, <<"0", ".", "1", "s">>, <<"a", "b", "c">>, <<"N", "o", "n", "e">>,
          <<"1", ".", "x">>, <<"-">>}

InitValidator ==
    /\ pintValidator = NewPintValidator
    /\ PYQT_QSTRING_API_1 \in BOOLEAN
    /\ lineEdit = NewValueLineEdit
    /\ attr = None
    /\ configEdit = NewConfigLineEdit
    /\ param = <<>>
    /\ trace = NoTrace

SetTop(top) ==
    /\ pintValidator' = setTop(pintValidator, top)
    /\ trace' = [op |-> "setTop", calls |-> <<>>]
    /\ UNCHANGED <<PYQT_QSTRING_API_1, lineEdit, attr, configEdit, param>>

SetBottom(bottom) ==
    /\ pintValidator' = setBottom(pintValidator, bottom)
    /\ trace' = [op |-> "setBottom", calls |-> <<>>]
    /\ UNCHANGED <<PYQT_QSTRING_API_1, lineEdit, attr, configEdit, param>>

Validate(input, pos) ==
    /\ trace' = [op |-> "validate", calls |-> <<>>, input |-> input, pos |-> pos,
                 result |-> validate(PYQT_QSTRING_API_1, pintValidator, input, pos)]
    /\ UNCHANGED <<pintValidator, PYQT_QSTRING_API_1, lineEdit, attr, configEdit, param>>

NextValidator ==
    \/ \E top \in LimitQuantities : SetTop(top)
    \/ \E bottom \in LimitQuantities : SetBottom(bottom)
    \/ \E input \in ValidatorInputs, pos \in 0..MaxPos : Validate(input, pos)

SpecValidator == InitValidator /\ [][NextValidator]_vars

(***************************************************************************)
(* C1                                                                      *)
(***************************************************************************)
\* the quantity is below the limit, above it, or of another dimension
C1_Below(q, limit) == q.dim = limit.dim /\ Lt(q.mag, limit.mag)
C1_Above(q, limit) == q.dim = limit.dim /\ Lt(limit.mag, q.mag)
C1_Incompatible(q, limit) == q.dim # limit.dim

\* the state the claim gives a string under the limits bottom and top
C1_Class(input, bottom, top) ==
    LET q == QuantityFromString(input)
    IN IF q = NotAQuantity THEN Intermediate
       ELSE IF \/ bottom # None /\ C1_Below(q, bottom)
               \/ top # None /\ C1_Above(q, top)
               \/ bottom # None /\ C1_Incompatible(q, bottom)
               \/ top # None /\ C1_Incompatible(q, top)
       THEN Invalid
       ELSE Acceptable

\* C1 as stated: validate returns the state the classification gives
\* (Intermediate for no quantity; Invalid below a set bottom, above a set top
\* or of a dimension incompatible with a limit; Acceptable otherwise, limits
\* inclusive, a None limit not enforced) together with the input string and
\* the position, unchanged.
C1_AsStated ==
    trace.op = "validate" =>
        /\ trace.result[1] = C1_Class(trace.input, pintValidator._bottom, pintValidator._top)
        /\ Len(trace.result) = 3
        /\ trace.result[2] = trace.input
        /\ trace.result[3] = trace.pos

\* C1 amended: validate returns the state the classification gives and the
\* position unchanged; the input string is returned, unchanged, by the
\* _validate variant only: under PYQT_QSTRING_API_1 validate is
\* _validate_oldQt, whose result is the pair (state, pos).
C1_Validate ==
    trace.op = "validate" =>
        /\ trace.result[1] = C1_Class(trace.input, pintValidator._bottom, pintValidator._top)
        /\ trace.result[Len(trace.result)] = trace.pos
        /\ ~PYQT_QSTRING_API_1 => Len(trace.result) = 3 /\ trace.result[2] = trace.input
        /\ PYQT_QSTRING_API_1 => Len(trace.result) = 2

\* a string equal to the bottom limit, with no top limit, was validated and
\* found Acceptable
C1_Witness ==
    /\ trace.op = "validate"
    /\ trace.pos > 0
    /\ pintValidator._bottom # None
    /\ pintValidator._top = None
    /\ QuantityFromString(trace.input) = pintValidator._bottom
    /\ trace.result[1] = Acceptable


(***************************************************************************)
(* TaurusValueLineEdit: the operations as actions                          *)
(***************************************************************************)
Self == [w |-> lineEdit, attr |-> attr, calls |-> <<>>]

\* the handler's result becomes the state; the trace keeps what it called
Commit(s, tr) ==
    \E r \in {s} :
        /\ lineEdit' = r.w
        /\ attr' = r.attr
        /\ trace' = [tr EXCEPT !.calls = r.calls]
        /\ UNCHANGED <<pintValidator, PYQT_QSTRING_API_1, configEdit, param>>

Op(name) == [op |-> name, calls |-> <<>>]

\* the models a widget is given: none, or an attribute of one of the data
\* types, not configured and never written
Models == {Attribute(type, <<NegInf, PosInf>>, <<NegInf, PosInf>>, NoneValue) :
              type \in {Integer, FloatType, String}}

InitValue(models) ==
    /\ pintValidator = NewPintValidator
    /\ PYQT_QSTRING_API_1 \in BOOLEAN
    /\ lineEdit = NewValueLineEdit
    /\ attr \in models
    /\ configEdit = NewConfigLineEdit
    /\ param = <<>>
    /\ trace = NoTrace

\* the user changes the text to t: QLineEdit takes it unless the widget is
\* read-only or the validator finds it Invalid, and emits textChanged
UserEdit(t) ==
    /\ ~lineEdit.readOnly
    /\ t # lineEdit.text
    /\ IF lineEdit.validator = None THEN TRUE
       ELSE validate(PYQT_QSTRING_API_1, lineEdit.validator, t, 0)[1] # Invalid
    /\ Commit(setText(Self, t), Op("textChanged"))

\* the signal returnPressed, connected (line 127) to writeValue
ReturnPressed ==
    /\ hasAcceptableInput(Self)
    /\ Commit(writeValue(Self), Op("returnPressed"))

\* the signal editingFinished, connected (line 129) to _onEditingFinished
EditingFinished ==
    /\ hasAcceptableInput(Self)
    /\ Commit(_onEditingFinished(Self), Op("editingFinished"))

\* TaurusBaseWritableWidget.setAutoApply(b)
SetAutoApply(b) ==
    Commit([Self EXCEPT !.w._autoApply = b], Op("setAutoApply"))

\* QLineEdit.setReadOnly(b)
SetReadOnly(b) ==
    Commit([Self EXCEPT !.w.readOnly = b], Op("setReadOnly"))

SetValue(v) == Commit(setValue(Self, v), Op("setValue"))

UpdateStyle == Commit(updateStyle(Self), Op("updateStyle"))

\* the model's alarm and range pairs are configured anew (outside the widget)
ConfigureAttr(alarm, range) ==
    /\ attr # None
    /\ <<alarm, range>> # <<attr.alarm, attr.range>>
    /\ attr' = [attr EXCEPT !.alarm = alarm, !.range = range]
    /\ trace' = Op("configure")
    /\ UNCHANGED <<pintValidator, PYQT_QSTRING_API_1, lineEdit, configEdit, param>>

\* an event of the model; its value carries the attribute's data type
HandleEvent(evt_type) ==
    /\ attr # None
    /\ Commit(handleEvent(Self, evt_type, [type |-> attr.type]),
              [op |-> "handleEvent", calls |-> <<>>, evt_type |-> evt_type])

SetEnableWheelEvent(b) ==
    Commit(setEnableWheelEvent(Self, b), Op("setEnableWheelEvent"))

ResetEnableWheelEvent ==
    Commit(resetEnableWheelEvent(Self), Op("resetEnableWheelEvent"))

\* the text shows no number beyond maxValue tenths
Within(s, maxValue) ==
    ParseFloat(s.w.text).ok => Abs(ParseFloat(s.w.text).n) <= maxValue

WheelEvent(evt, maxValue) ==
    \E r \in {wheelEvent(Self, evt)} :
        /\ Within(r, maxValue)
        /\ Commit(r, [op |-> "wheelEvent", calls |-> <<>>, evt |-> evt])

KeyPressEvent(evt, maxValue) ==
    \E r \in {keyPressEvent(Self, evt)} :
        /\ Within(r, maxValue)
        /\ Commit(r, [op |-> "keyPressEvent", calls |-> <<>>, evt |-> evt])

\* the inputs
Texts == {IntStr(n * Scale) : n \in (0..MaxText) \cup {-MaxText}}
         \cup {<<"1", ".", "5">>, <<"a", "b", "c">>}
Values == {FloatValue(n * Scale) : n \in {0, MaxText}} \cup {FloatValue(-15)}
Alarms == {<<NegInf, PosInf>>, <<Finite(-AlarmLimit * Scale), Finite(AlarmLimit * Scale)>>}
Ranges == {<<NegInf, PosInf>>, <<Finite(-RangeLimit * Scale), Finite(RangeLimit * Scale)>>}
Modifiers == SUBSET {ControlModifier, AltModifier}
Deltas == {60 * h : h \in -MaxHalfNotches..MaxHalfNotches}
StepKeys == {Key_Up, Key_Down, Key_Left}
Keys == StepKeys \cup {Key_Return, Key_Enter}

(***************************************************************************)
(* Specification SpecApply: text changes, returnPressed, editingFinished   *)
(* and autoApply                                                           *)
(***************************************************************************)
InitApply == InitValue(Models)

NextApply ==
    \/ \E t \in Texts : UserEdit(t)
    \/ ReturnPressed
    \/ EditingFinished
    \/ \E b \in BOOLEAN : SetAutoApply(b)

SpecApply == InitApply /\ [][NextApply]_vars

(***************************************************************************)
(* Specification SpecStyle: the model is configured and sends events, the  *)
(* text is typed and set and the style updated                             *)
(***************************************************************************)
\* the models: a float or a string attribute, never written or last written
\* with a value the widget can show
StyleModels ==
    {Attribute(FloatType, <<NegInf, PosInf>>, <<NegInf, PosInf>>, wvalue) :
        wvalue \in {NoneValue, FloatValue(15), FloatValue(MaxText * Scale)}}
    \cup {Attribute(String, <<NegInf, PosInf>>, <<NegInf, PosInf>>, wvalue) :
        wvalue \in {NoneValue, StrValue(<<"1", ".", "5">>)}}

InitStyle == InitValue(StyleModels)

NextStyle ==
    \/ \E alarm \in Alarms, range \in Ranges : ConfigureAttr(alarm, range)
    \/ \E evt_type \in TaurusEventTypes : HandleEvent(evt_type)
    \/ \E t \in Texts : UserEdit(t)
    \/ \E v \in Values : SetValue(v)
    \/ UpdateStyle

SpecStyle == InitStyle /\ [][NextStyle]_vars

(***************************************************************************)
(* Specification SpecStep: wheel and arrow-key steps over a wide range of  *)
(* values                                                                  *)
(***************************************************************************)
InitStep == InitValue(Models \cup {None})

StepTexts == {<<"0">>, <<"-", "0", ".", "5">>, <<"a", "b", "c">>}

NextStep ==
    \/ SetEnableWheelEvent(TRUE)
    \/ \E t \in StepTexts : UserEdit(t)
    \/ \E evt \in [delta : Deltas, modifiers : Modifiers] : WheelEvent(evt, MaxStepValue)
    \/ \E evt \in [key : StepKeys, modifiers : Modifiers] : KeyPressEvent(evt, MaxStepValue)

SpecStep == InitStep /\ [][NextStep]_vars

(***************************************************************************)
(* Specification SpecKeys: every key and the wheel, on a widget that is    *)
(* made read-only and whose wheel is enabled and reset                     *)
(***************************************************************************)
InitKeys == InitValue(Models \cup {None})

KeysTexts == {<<"0">>, <<"1", ".", "5">>, <<"a", "b", "c">>}
KeysModifiers == {{}, {ControlModifier}}

NextKeys ==
    \/ \E b \in BOOLEAN : SetEnableWheelEvent(b)
    \/ ResetEnableWheelEvent
    \/ \E b \in BOOLEAN : SetReadOnly(b)
    \/ \E t \in KeysTexts : UserEdit(t)
    \/ \E evt \in [delta : Deltas, modifiers : KeysModifiers] : WheelEvent(evt, MaxKeysValue)
    \/ \E evt \in [key : Keys, modifiers : KeysModifiers] : KeyPressEvent(evt, MaxKeysValue)

SpecKeys == InitKeys /\ [][NextKeys]_vars

(***************************************************************************)
(* C2                                                                      *)
(***************************************************************************)
\* the last thing the last handler did was updateStyle
C2_Styled == trace.calls # <<>> /\ trace.calls[Len(trace.calls)] = "updateStyle"
C2_Color == lineEdit.styleSheet[3]
C2_Weight == lineEdit.styleSheet[5]

\* C2: after every call of updateStyle the style is decided by (out of range,
\* in alarm, pending operations) of the current value in this priority: out
\* of range gives gray/normal whatever the rest; else in alarm gives orange,
\* bold exactly when operations are pending; else pending operations give
\* blue/bold; else black/normal.  So bold never comes with gray, and blue
\* only with an in-range, not-in-alarm value with pending operations.
C2_StylePriority ==
    C2_Styled =>
        LET v == getValue(Self)
            out == _outOfRange(Self, v)
            alarm == _inAlarm(Self, v)
            pending == hasPendingOperations(Self)
        IN /\ lineEdit.styleSheet =
                  StyleSheet("TaurusValueLineEdit", C2_Color, C2_Weight)
           /\ C2_Weight \in {"bold", "normal"}
           /\ out => C2_Color = "gray" /\ C2_Weight = "normal"
           /\ ~out /\ alarm => C2_Color = "orange" /\ (C2_Weight = "bold" <=> pending)
           /\ ~out /\ ~alarm /\ pending => C2_Color = "blue" /\ C2_Weight = "bold"
           /\ ~out /\ ~alarm /\ ~pending => C2_Color = "black" /\ C2_Weight = "normal"
           /\ C2_Weight = "bold" => C2_Color # "gray"
           /\ C2_Color = "blue" => ~out /\ ~alarm /\ pending

\* updateStyle ran on a value out of range, in alarm and with pending
\* operations, and the style is gray/normal
C2_Witness ==
    /\ C2_Styled
    /\ _outOfRange(Self, getValue(Self))
    /\ _inAlarm(Self, getValue(Self))
    /\ hasPendingOperations(Self)
    /\ C2_Color = "gray"
    /\ C2_Weight = "normal"

(***************************************************************************)
(* C3                                                                      *)
(***************************************************************************)
C3_Writes == Cardinality({i \in 1..Len(trace.calls) : trace.calls[i] = "writeValue"})

\* C3: writeValue is invoked only by returnPressed, or by editingFinished
\* while autoApply is true.  A text change never invokes it, autoApply or
\* not: it emits valueChanged, which updates the pending operations.  With
\* autoApply false editingFinished does not invoke it.
C3_Deferred ==
    /\ C3_Writes > 0 =>
           \/ trace.op = "returnPressed"
           \/ trace.op = "editingFinished" /\ lineEdit._autoApply
    /\ trace.op = "textChanged" =>
           /\ C3_Writes = 0
           /\ trace.calls = <<"valueChanged", "emitValueChanged",
                              "updatePendingOperations", "updateStyle">>
    /\ trace.op = "editingFinished" /\ ~lineEdit._autoApply => C3_Writes = 0
    /\ trace.op = "editingFinished" /\ lineEdit._autoApply => C3_Writes = 1
    /\ trace.op = "returnPressed" => C3_Writes = 1

\* the text changed with autoApply on, and the change is pending, not written
C3_Witness ==
    /\ trace.op = "textChanged"
    /\ lineEdit._autoApply
    /\ hasPendingOperations(Self)
    /\ attr.wvalue # getValue(Self)

(***************************************************************************)
(* C4                                                                      *)
(***************************************************************************)
\* the number of steps (in tenths) the claim gives an event on a model
C4_Steps(tr, model) ==
    LET base == IF tr.op = "wheelEvent" THEN (tr.evt.delta \div 8) \div 15
                ELSE IF tr.evt.key = Key_Up THEN 1 ELSE -1
    IN IF ControlModifier \in tr.evt.modifiers THEN 10 * (base * Scale)
       ELSE IF AltModifier \in tr.evt.modifiers /\ model.type = FloatType
            THEN (base * Scale) \div 10
       ELSE base * Scale

\* the handler stepped the value: _stepBy ran and did not raise
C4_Applied(tr) ==
    /\ tr.op \in {"wheelEvent", "keyPressEvent"}
    /\ \E i \in 1..Len(tr.calls) : tr.calls[i] = "_stepBy"
    /\ \A i \in 1..Len(tr.calls) : tr.calls[i] # "raise TypeError"

\* C4: when a step is applied the value displayed afterwards is the value
\* before plus the number of steps: (delta / 8) / 15 for the wheel (integer
\* divisions), +1 for Key_Up, -1 for Key_Down, times 10 under Control, else
\* times 0.1 under Alt on a float model; Control wins over Alt and Alt does
\* nothing on a model that is not a float; wheel and keys follow one rule.
C4_StepArithmetic ==
    [][C4_Applied(trace') =>
          /\ ParseFloat(lineEdit'.text).ok
          /\ ParseFloat(lineEdit'.text).n = getValue(Self).n + C4_Steps(trace', attr)]_vars

\* a key step under Control and Alt together was applied on a float model
C4_Witness ==
    /\ C4_Applied(trace)
    /\ trace.op = "keyPressEvent"
    /\ trace.evt.modifiers = {ControlModifier, AltModifier}
    /\ attr.type = FloatType
    /\ trace.evt.key = Key_Up
    /\ lineEdit.text = <<"5", ".", "0">>

(***************************************************************************)
(* C5                                                                      *)
(***************************************************************************)
C5_Stepped == \E i \in 1..Len(trace.calls) : trace.calls[i] = "_stepBy"
C5_NumericModel == attr # None /\ isNumeric(attr)

\* C5: a wheel event steps only if enableWheelEvent is true, the widget is
\* not read-only and the model exists and is numeric; Key_Up and Key_Down
\* step only if the widget is not read-only and the model exists and is
\* numeric; in every other case the event goes to the QLineEdit handler and
\* nothing is stepped.  enableWheelEvent is false initially and after
\* resetEnableWheelEvent.  Return and Enter always go to the QLineEdit
\* handler and are accepted.
C5_Gates ==
    /\ trace.op = "wheelEvent" =>
           IF lineEdit._enableWheelEvent /\ ~lineEdit.readOnly /\ C5_NumericModel
           THEN TRUE
           ELSE trace.calls = <<"QLineEdit.wheelEvent">>
    /\ trace.op = "keyPressEvent" /\ trace.evt.key \notin {Key_Return, Key_Enter} =>
           IF trace.evt.key \in {Key_Up, Key_Down} /\ ~lineEdit.readOnly /\ C5_NumericModel
           THEN TRUE
           ELSE trace.calls = <<"QLineEdit.keyPressEvent">>
    /\ trace.op = "keyPressEvent" /\ trace.evt.key \in {Key_Return, Key_Enter} =>
           /\ trace.calls[1] = "QLineEdit.keyPressEvent"
           /\ trace.calls[Len(trace.calls)] = "accept"
           /\ ~C5_Stepped
    /\ trace.op \in {"init", "resetEnableWheelEvent"} => ~lineEdit._enableWheelEvent
    /\ C5_Stepped => trace.op \in {"wheelEvent", "keyPressEvent"}

\* a wheel event on an editable widget with a numeric model was handed to
\* QLineEdit because the wheel had been reset
C5_Witness ==
    /\ trace.op = "wheelEvent"
    /\ ~lineEdit._enableWheelEvent
    /\ ~lineEdit.readOnly
    /\ C5_NumericModel
    /\ IsNumber(getValue(Self))
    /\ trace.calls = <<"QLineEdit.wheelEvent">>

(***************************************************************************)
(* C7                                                                      *)
(***************************************************************************)
C7_Limits == <<lineEdit.minAlarm, lineEdit.maxAlarm, lineEdit.minLimit, lineEdit.maxLimit>>

\* C7: handleEvent changes the alarm limits, the range limits and the
\* validator only for a Config event, and then the alarm limits become the
\* model's alarm pair and the range limits its range pair; every event is
\* forwarded to TaurusBaseWritableWidget.handleEvent.
C7_Frame ==
    [][trace'.op = "handleEvent" =>
          /\ trace'.evt_type # Config =>
                 /\ C7_Limits' = C7_Limits
                 /\ lineEdit'.validator = lineEdit.validator
          /\ trace'.evt_type = Config =>
                 /\ <<lineEdit'.minAlarm, lineEdit'.maxAlarm>> = attr.alarm
                 /\ <<lineEdit'.minLimit, lineEdit'.maxLimit>> = attr.range
          /\ trace'.calls[1] = "TaurusBaseWritableWidget.handleEvent"]_vars

\* a Change event was handled while the model's alarm and range pairs were
\* not the widget's limits, and the limits stayed
C7_Witness ==
    /\ trace.op = "handleEvent"
    /\ trace.evt_type = Change
    /\ <<lineEdit.minAlarm, lineEdit.maxAlarm>> # attr.alarm
    /\ <<lineEdit.minLimit, lineEdit.maxLimit>> # attr.range
    /\ lineEdit.validator # None

(***************************************************************************)
(* TaurusConfigLineEdit.  A handler takes and returns the record c:        *)
(*   c.w      the widget's fields                                          *)
(*   c.param  the value of the model's parameter named by _configParam     *)
(*   c.calls  the calls out of the widget the handler made, in order       *)
(***************************************************************************)
Blue == StyleSheet("TaurusConfigLineEdit", "blue", "bold")
Black == StyleSheet("TaurusConfigLineEdit", "black", "normal")

\* getValue(): model.encode(text), the text as the string it is
Config_getValue(c) == StrValue(c.w.text)

\* valueChanged()
Config_valueChanged(c0) ==
    LET c == Called(c0, "valueChanged")
    IN IF Config_getValue(c) # StrValue(c.param)
       THEN [c EXCEPT !.w.styleSheet = Blue]
       ELSE [c EXCEPT !.w.styleSheet = Black]

\* handleEvent(evt_src, evt_type, evt_value)
Config_handleEvent(c) == Config_valueChanged(c)

\* setValue(v): the text becomes v or, with a model and a parameter name, the
\* model's parameter, stripped; the signals are blocked, so that textChanged
\* is not emitted
Config_setValue(c, v) ==
    LET v_str == IF ~c.w.hasModel \/ c.w._configParam = <<>> THEN Str(v) ELSE c.param
    IN [c EXCEPT !.w.text = Strip(v_str)]

\* writeValue()
Config_writeValue(c0) ==
    LET c == Called(c0, "writeValue")
    IN [c EXCEPT !.param = c.w.text, !.w.styleSheet = Black]

\* _onEditingFinished()
Config_onEditingFinished(c) ==
    IF c.w._autoApply THEN Config_writeValue(c) ELSE c

ConfigSelf == [w |-> configEdit, param |-> param, calls |-> <<>>]

ConfigCommit(c, name) ==
    \E r \in {c} :
        /\ configEdit' = r.w
        /\ param' = r.param
        /\ trace' = [op |-> name, calls |-> r.calls]
        /\ UNCHANGED <<pintValidator, PYQT_QSTRING_API_1, lineEdit, attr>>

\* the texts typed and the values the model's parameter takes
ConfigTexts == {<<>>, <<"a">>, <<"b">>, <<"a", " ">>, <<"a", " ", "b">>}

\* the widget once its model is set and the model's first event handled
InitConfig ==
    /\ pintValidator = NewPintValidator
    /\ PYQT_QSTRING_API_1 \in BOOLEAN
    /\ lineEdit = NewValueLineEdit
    /\ attr = None
    /\ param \in ConfigTexts
    /\ configEdit = Config_handleEvent(
                        [w |-> Config_setModel(NewConfigLineEdit, ConfigModelName),
                         param |-> param,
                         calls |-> <<>>]).w
    /\ trace = NoTrace

\* the user changes the text: textChanged, connected (line 310) to valueChanged
Config_UserEdit(t) ==
    /\ t # configEdit.text
    /\ ConfigCommit(Config_valueChanged([ConfigSelf EXCEPT !.w.text = t]), "textChanged")

Config_SetValue(v) == ConfigCommit(Config_setValue(ConfigSelf, v), "setValue")

\* the model's parameter takes the value p and the model's event is handled
Config_HandleEvent(p) ==
    ConfigCommit(Config_handleEvent([ConfigSelf EXCEPT !.param = p]), "handleEvent")

\* the signal returnPressed, connected (line 311) to writeValue
Config_ReturnPressed == ConfigCommit(Config_writeValue(ConfigSelf), "returnPressed")

\* the signal editingFinished, connected (line 312) to _onEditingFinished
Config_EditingFinished ==
    ConfigCommit(Config_onEditingFinished(ConfigSelf), "editingFinished")

Config_SetAutoApply(b) ==
    ConfigCommit([ConfigSelf EXCEPT !.w._autoApply = b], "setAutoApply")

NextConfig ==
    \/ \E t \in ConfigTexts : Config_UserEdit(t)
    \/ \E v \in ConfigTexts : Config_SetValue(StrValue(v))
    \/ \E p \in ConfigTexts : Config_HandleEvent(p)
    \/ Config_ReturnPressed
    \/ Config_EditingFinished
    \/ \E b \in BOOLEAN : Config_SetAutoApply(b)

SpecConfig == InitConfig /\ [][NextConfig]_vars

(***************************************************************************)
(* C6                                                                      *)
(***************************************************************************)
\* C6: in every reachable state of a TaurusConfigLineEdit with a model the
\* style is blue/bold exactly when the widget's value differs from the string
\* form of the model's parameter, and black/normal otherwise; right after
\* writeValue the parameter equals the text and the style is black/normal,
\* and setValue leaves no blue/bold on a text equal to the parameter.
C6_StyleTracksDifference ==
    /\ configEdit.styleSheet = Blue <=> Config_getValue(ConfigSelf) # StrValue(param)
    /\ configEdit.styleSheet # Blue => configEdit.styleSheet = Black
    /\ trace.op = "returnPressed" =>
           param = configEdit.text /\ configEdit.styleSheet = Black
    /\ trace.op = "setValue" /\ configEdit.text = param => configEdit.styleSheet # Blue

============================================================================
